---- MODULE Spec2Model ----
(***************************************************************************)
(* Model of fastnbt's src/anvil/bits.rs: the decoder that expands packed   *)
(* fixed-width fields out of an array of 64-bit words (expand_generic,     *)
(* expand_heightmap, expand_blockstates) and the width rule                *)
(* (bits_per_block).                                                       *)
(*                                                                         *)
(* Number representation.  TLC's integers are 32 bits wide, so 64-bit      *)
(* values are never held in one TLC integer:                               *)
(*   - an i64 is a tuple <<l0, l1, l2, l3>> of 16-bit limbs, least         *)
(*     significant first, with l0..l2 in 0..65535 and l3 SIGNED in         *)
(*     -32768..32767; it denotes l3*2^48 + l2*2^32 + l1*2^16 + l0, which   *)
(*     gives every i64 exactly one representation;                         *)
(*   - a u64 / usize (64-bit target) is the set of the positions of its    *)
(*     one bits, a subset of 0..63, position 0 being the least significant *)
(*     bit; shifts drop the bits that leave the 64-bit width;              *)
(*   - an integer-valued f64 is the set of the positions of the one bits   *)
(*     of its value (at most 53 consecutive positions are significant);    *)
(*   - a u16 and a returned usize are plain naturals.                      *)
(* A panic (division by zero, index out of bounds, failed assert!) is the  *)
(* value Panic; every operation that can panic returns Ok(v) or Panic.     *)
(***************************************************************************)
EXTENDS Integers, Sequences, FiniteSets, TLC

(***************************************************************************)
(* Bounds of the model.                                                    *)
(***************************************************************************)
\* longest word array drawn from WordPool
MaxWords == 3
\* largest bits_per_item handed to expand_generic (0 and 65.. are invalid)
MaxBits == 66
\* palette lengths 0..MaxPalette are all tried (plus the powers of two and
\* their neighbours up to usize::MAX)
MaxPalette == 40
\* heightmaps packed from the value sequences v_k = (a*k + c) % 512 with
\* a in 0..MaxStride
MaxStride == 3

(***************************************************************************)
(* Program constants.                                                      *)
(***************************************************************************)
\* the literal 64 of line 25 = u64's BitField::BIT_LENGTH
BIT_LENGTH == 64
\* expand_heightmap's fixed width
HeightmapBits == 9
\* bits_per_block's floor, and the palette length below which it applies
MinBits == 4
SmallPalette == 16
\* width of the output element type u16
U16Bits == 16

(***************************************************************************)
(* Results of operations that may panic.                                   *)
(***************************************************************************)
Ok(v) == [ok |-> TRUE, val |-> v]
Panic == [ok |-> FALSE, val |-> {}]

(***************************************************************************)
(* u64 arithmetic on bit sets.                                             *)
(***************************************************************************)
Pow2(n) == 2 ^ n

SetMax(S) == CHOOSE m \in S : \A x \in S : x <= m

\* x << n and x >> n on u64, for 0 <= n < 64 (Rust panics on a shift by 64
\* or more; every caller below keeps n in 0..63)
Shl(x, n) == {b + n : b \in {c \in x : c + n < BIT_LENGTH}}
Shr(x, n) == {b - n : b \in {c \in x : c >= n}}
\* !x
Not(x) == (0 .. BIT_LENGTH - 1) \ x

\* the natural number held in the bits of x below position n (n <= 31)
RECURSIVE LowValue(_, _)
LowValue(x, n) ==
    IF n = 0 THEN 0
    ELSE LowValue(x, n - 1) + (IF (n - 1) \in x THEN Pow2(n - 1) ELSE 0)

\* the bit set of a natural number n < 2^31
NatBits(n) == {b \in 0 .. 30 : (n \div Pow2(b)) % 2 = 1}

\* x < n for a u64 / usize x and a natural number n < 2^31
LtNat(x, n) == (\A b \in x : b <= 30) /\ LowValue(x, 31) < n

(***************************************************************************)
(* The casts of expand_generic.                                            *)
(***************************************************************************)
\* Mutant of AsU64: the cast takes the magnitude of a negative word (what
\* i64::unsigned_abs would give) instead of its bit pattern.
AsU64Magnitude(w) ==
    LET m == IF w[4] >= 0 THEN w
             ELSE \* -w = (-w - 1) + 1, limb by limb with the carry
                  LET c1 == (65535 - w[1]) + 1
                      c2 == (65535 - w[2]) + (c1 \div 65536)
                      c3 == (65535 - w[3]) + (c2 \div 65536)
                      c4 == ((0 - w[4]) - 1) + (c3 \div 65536)
                  IN  <<c1 % 65536, c2 % 65536, c3 % 65536, c4 % 65536>>
    IN  {b \in 0 .. BIT_LENGTH - 1 : (m[(b \div 16) + 1] \div Pow2(b % 16)) % 2 = 1}

\* `*i as u64` (line 29): the cast keeps the two's-complement bit pattern.
\* Bits 0..47 are the bits of the three low limbs; the signed top limb t
\* contributes the bits of t mod 2^16.
AsU64(w) ==
    LET limb(k) == IF w[k] < 0 THEN w[k] + 65536 ELSE w[k]
    IN  {b \in 0 .. BIT_LENGTH - 1 : (limb((b \div 16) + 1) \div Pow2(b % 16)) % 2 = 1}

\* Mutant of AsU16: a saturating conversion (u16::try_from(..).unwrap_or(MAX)).
AsU16Saturating(x) ==
    IF \E b \in x : b >= U16Bits THEN Pow2(U16Bits) - 1 ELSE LowValue(x, U16Bits)

\* `... as u16` (line 34): the cast keeps the low 16 bits.
AsU16(x) == LowValue(x, U16Bits)

(***************************************************************************)
(* bit_field::BitField for u64 (the trait behind copy.get_bits, line 34).  *)
(***************************************************************************)
\* Mutant of u64_get_bits: the bits above `end` are not shifted away.
u64_get_bits_unmasked(self, start, end) ==
    IF ~(start < BIT_LENGTH /\ end <= BIT_LENGTH /\ start < end) THEN Panic
    ELSE Ok(Shr(self, start))

\* u64::get_bits(start..end):
\*   assert!(range.start < BIT_LENGTH); assert!(range.end <= BIT_LENGTH);
\*   assert!(range.start < range.end);
\*   let bits = *self << (BIT_LENGTH - range.end) >> (BIT_LENGTH - range.end);
\*   bits >> range.start
u64_get_bits(self, start, end) ==
    IF ~(start < BIT_LENGTH /\ end <= BIT_LENGTH /\ start < end) THEN Panic
    ELSE Ok(Shr(Shr(Shl(self, BIT_LENGTH - end), BIT_LENGTH - end), start))

\* u64::set_bits(start..end, value):
\*   the same three asserts, then
\*   assert!(value << (BIT_LENGTH - (end - start)) >> (BIT_LENGTH - (end - start)) == value);
\*   let bitmask = !(!0 << (BIT_LENGTH - end) >> (BIT_LENGTH - end) >> start << start);
\*   *self = (*self & bitmask) | (value << start);
u64_set_bits(self, start, end, value) ==
    IF ~(start < BIT_LENGTH /\ end <= BIT_LENGTH /\ start < end) THEN Panic
    ELSE LET width == end - start
             fits == Shr(Shl(value, BIT_LENGTH - width), BIT_LENGTH - width) = value
             bitmask == Not(Shl(Shr(Shr(Shl(Not({}), BIT_LENGTH - end),
                                        BIT_LENGTH - end), start), start))
         IN  IF ~fits THEN Panic
             ELSE Ok((self \cap bitmask) \cup Shl(value, start))

(***************************************************************************)
(* bit_field::BitArray for [u64]: copy.get_bits(begin..end), line 34.      *)
(* `self` is a sequence of u64, Rust index k being self[k + 1] here.       *)
(***************************************************************************)
\* self[k] with Rust's bounds check
Index(self, k) == IF k < Len(self) THEN Ok(self[k + 1]) ELSE Panic

\* Mutant of GetBitsAcross: the two parts are put together in the other
\* order, the part from self[slice_end] low and the part from
\* self[slice_start] above it.
GetBitsAcrossSwapped(self, slice_start, slice_end, bit_start, bit_end, len) ==
    LET lo == Index(self, slice_start)
        hi == Index(self, slice_end)
    IN  IF ~lo.ok \/ ~hi.ok THEN Panic
        ELSE LET ret  == u64_get_bits(hi.val, 0, bit_end)
                 rest == u64_get_bits(lo.val, bit_start, BIT_LENGTH)
             IN  IF ~ret.ok \/ ~rest.ok THEN Panic
                 ELSE u64_set_bits(ret.val, bit_end, len, rest.val)

\* the straddling case: the low part comes from self[slice_start], the
\* high part from self[slice_end]
GetBitsAcross(self, slice_start, slice_end, bit_start, bit_end, len) ==
    LET lo == Index(self, slice_start)
        hi == Index(self, slice_end)
    IN  IF ~lo.ok \/ ~hi.ok THEN Panic
        ELSE LET ret  == u64_get_bits(lo.val, bit_start, BIT_LENGTH)
                 rest == u64_get_bits(hi.val, 0, bit_end)
             IN  IF ~ret.ok \/ ~rest.ok THEN Panic
                 ELSE u64_set_bits(ret.val, BIT_LENGTH - bit_start, len, rest.val)

\* Mutant of get_bits: without the `bit_end == 0` case a field that ends on
\* a word boundary is handled as a straddling one and reads self[slice_end].
get_bits_no_boundary_case(self, start, end) ==
    LET len         == IF end > start THEN end - start ELSE 0
        slice_start == start \div BIT_LENGTH
        slice_end   == end \div BIT_LENGTH
        bit_start   == start % BIT_LENGTH
        bit_end     == end % BIT_LENGTH
    IN  IF ~(len > 0 /\ len <= BIT_LENGTH) THEN Panic
        ELSE IF ~(slice_end - slice_start <= 1) THEN Panic
        ELSE IF slice_start = slice_end
             THEN LET w == Index(self, slice_start)
                  IN  IF ~w.ok THEN Panic
                      ELSE u64_get_bits(w.val, bit_start, bit_end)
        ELSE GetBitsAcross(self, slice_start, slice_end, bit_start, bit_end, len)

\* <[u64] as BitArray>::get_bits(start..end):
\*   assert!(range.len() > 0 && range.len() <= BIT_LENGTH);
\*   slice_start = start / BIT_LENGTH; slice_end = end / BIT_LENGTH;
\*   bit_start = start % BIT_LENGTH;   bit_end = end % BIT_LENGTH;
\*   assert!(slice_end - slice_start <= 1);
\*   if slice_start == slice_end { self[slice_start].get_bits(bit_start..bit_end) }
\*   else if bit_end == 0        { self[slice_start].get_bits(bit_start..BIT_LENGTH) }
\*   else { ret = self[slice_start].get_bits(bit_start..BIT_LENGTH);
\*          ret.set_bits((BIT_LENGTH - bit_start)..len, self[slice_end].get_bits(0..bit_end)) }
get_bits(self, start, end) ==
    LET len         == IF end > start THEN end - start ELSE 0
        slice_start == start \div BIT_LENGTH
        slice_end   == end \div BIT_LENGTH
        bit_start   == start % BIT_LENGTH
        bit_end     == end % BIT_LENGTH
    IN  IF ~(len > 0 /\ len <= BIT_LENGTH) THEN Panic
        ELSE IF ~(slice_end - slice_start <= 1) THEN Panic
        ELSE IF slice_start = slice_end \/ bit_end = 0
             THEN LET w == Index(self, slice_start)
                  IN  IF ~w.ok THEN Panic
                      ELSE u64_get_bits(w.val, bit_start,
                                        IF slice_start = slice_end THEN bit_end
                                        ELSE BIT_LENGTH)
        ELSE GetBitsAcross(self, slice_start, slice_end, bit_start, bit_end, len)

(***************************************************************************)
(* expand_generic (lines 23-38).                                           *)
(***************************************************************************)
\* Mutant of ResultLen: the division rounds up, so leftover bits make one
\* more element.
ResultLenCeil(data, bits) ==
    IF bits = 0 THEN Panic
    ELSE Ok((Len(data) * BIT_LENGTH + bits - 1) \div bits)

\* line 25: the length of the result vector; the division panics on 0
ResultLen(data, bits) ==
    IF bits = 0 THEN Panic ELSE Ok((Len(data) * BIT_LENGTH) \div bits)

\* lines 32-34: one iteration of the loop, for Rust index i
Item(copy, bits, i) ==
    LET begin == i * bits
        end   == begin + bits
        got   == get_bits(copy, begin, end)
    IN  IF got.ok THEN Ok(AsU16(got.val)) ELSE Panic

expand_generic(data, bits_per_item) ==
    LET bits == bits_per_item
        n    == ResultLen(data, bits)
    IN  IF ~n.ok THEN Panic
        ELSE LET copy  == [k \in 1 .. Len(data) |-> AsU64(data[k])]
                 items == [i \in 1 .. n.val |-> Item(copy, bits, i - 1)]
             IN  IF \E i \in 1 .. n.val : ~items[i].ok THEN Panic
                 ELSE Ok([i \in 1 .. n.val |-> items[i].val])

(***************************************************************************)
(* expand_heightmap (lines 17-19).                                         *)
(***************************************************************************)
\* Mutant of expand_heightmap: a width of 8 bits, one byte per height.
expand_heightmap_bytes(data) == expand_generic(data, 8)

expand_heightmap(data) == expand_generic(data, HeightmapBits)

(***************************************************************************)
(* bits_per_block (lines 43-49).                                           *)
(***************************************************************************)
\* `palette_len as f64`: round to nearest, ties to even, keeping 53
\* significant bits.  The result is the bit set of the (integer) value of
\* the f64; it can be {64} (2^64) when usize::MAX-ish values round up.
AsF64(x) ==
    IF x = {} THEN {}
    ELSE LET top  == SetMax(x)
             drop == top - 52
         IN  IF drop <= 0 THEN x
             ELSE LET kept   == {b \in x : b >= drop}
                      half   == (drop - 1) \in x
                      sticky == \E b \in x : b < drop - 1
                      up     == half /\ (sticky \/ drop \in x)
                      \* kept + 2^drop: the carry runs through the ones
                      p      == CHOOSE q \in drop .. top + 1 :
                                    /\ q \notin kept
                                    /\ \A r \in drop .. q - 1 : r \in kept
                  IN  IF up THEN {b \in kept : b > p} \cup {p} ELSE kept

\* `.log2().ceil() as usize` of an integer-valued f64 >= 16: the values a
\* build can produce.  log2 of a power of two 2^k is exactly k.  Otherwise
\* the true logarithm lies strictly between k and k + 1 (k the top bit) and
\* ceil gives k + 1, unless the logarithm is within one unit in the last
\* place (2^-47 for 32 <= k < 64) of k, in which case the rounding of log2
\* decides and a libm may return k or the next f64 above k: that is the
\* case when every other one bit of f lies 48 or more positions below k.
Log2Ceil(f) ==
    LET k    == SetMax(f)
        rest == f \ {k}
    IN  IF rest = {} THEN {k}
        ELSE IF SetMax(rest) <= k - 48 THEN {k, k + 1}
        ELSE {k + 1}

IntMax(a, b) == IF a >= b THEN a ELSE b

\* the set of the values bits_per_block can return (one value except where
\* the rounding of log2 decides)
bits_per_block(palette_len) ==
    IF LtNat(palette_len, SmallPalette)
    THEN {MinBits}
    ELSE {IntMax(r, MinBits) : r \in Log2Ceil(AsF64(palette_len))}

(***************************************************************************)
(* expand_blockstates (lines 12-14).                                       *)
(***************************************************************************)
\* the set of the results it can return, one per value of bits_per_block
expand_blockstates(state, palette_len) ==
    {expand_generic(state, bits) : bits \in bits_per_block(palette_len)}

(***************************************************************************)
(* The regression fixtures of the tests (lines 55-160), each i64 literal   *)
(* written in limbs; the literal is in the comment.                        *)
(***************************************************************************)
\* tests::nether_heightmap_v1_15_2, lines 57-94
NetherHeightmap ==
    << <<128, 513, 2052, 8208>>,  \* 2310355422147575936
       <<32832, 256, 1026, 4104>>,  \* 1155177711073787968
       <<16416, 128, 513, 2052>>,  \* 577588855536893984
       <<8208, 32832, 256, 1026>>,  \* 288794427768446992
       <<4104, 16416, 128, 513>>,  \* 144397213884223496
       <<2052, 8208, 32832, 256>>,  \* 72198606942111748
       <<1026, 4104, 16416, 128>>,  \* 36099303471055874
       <<513, 2052, 8208, -32704>>,  \* -9205322385119247871
       <<256, 1026, 4104, 16416>>,  \* 4620710844295151872
       <<128, 513, 2052, 8208>>,  \* 2310355422147575936
       <<32832, 256, 1026, 4104>>,  \* 1155177711073787968
       <<16416, 128, 513, 2052>>,  \* 577588855536893984
       <<8208, 32832, 256, 1026>>,  \* 288794427768446992
       <<4104, 16416, 128, 513>>,  \* 144397213884223496
       <<2052, 8208, 32832, 256>>,  \* 72198606942111748
       <<1026, 4104, 16416, 128>>,  \* 36099303471055874
       <<513, 2052, 8208, -32704>>,  \* -9205322385119247871
       <<256, 1026, 4104, 16416>>,  \* 4620710844295151872
       <<128, 513, 2052, 8208>>,  \* 2310355422147575936
       <<32832, 256, 1026, 4104>>,  \* 1155177711073787968
       <<16416, 128, 513, 2052>>,  \* 577588855536893984
       <<8208, 32832, 256, 1026>>,  \* 288794427768446992
       <<4104, 16416, 128, 513>>,  \* 144397213884223496
       <<2052, 8208, 32832, 256>>,  \* 72198606942111748
       <<1026, 4104, 16416, 128>>,  \* 36099303471055874
       <<513, 2052, 8208, -32704>>,  \* -9205322385119247871
       <<256, 1026, 4104, 16416>>,  \* 4620710844295151872
       <<128, 513, 2052, 8208>>,  \* 2310355422147575936
       <<32832, 256, 1026, 4104>>,  \* 1155177711073787968
       <<16416, 128, 513, 2052>>,  \* 577588855536893984
       <<8208, 32832, 256, 1026>>,  \* 288794427768446992
       <<4104, 16416, 128, 513>>,  \* 144397213884223496
       <<2052, 8208, 32832, 256>>,  \* 72198606942111748
       <<1026, 4104, 16416, 128>>,  \* 36099303471055874
       <<513, 2052, 8208, -32704>>,  \* -9205322385119247871
       <<256, 1026, 4104, 16416>> >>  \* 4620710844295151872

\* tests::heightmap_overworld_v1_15_2, lines 102-139
OverworldHeightmap ==
    << <<37448, 16672, 9346, 4617>>,  \* 1299610109330100808
       <<18468, 8336, 33345, 2308>>,  \* 649787462479005732
       <<9362, 36936, 16672, 1170>>,  \* 329397330866873490
       <<4617, 18724, 8336, -32191>>,  \* -9060925171218247159
       <<2340, 9362, 36937, 16672>>,  \* 4692909455540619556
       <<1170, 4617, 18212, 8336>>,  \* 2346453626107004050
       <<33345, 2308, 9362, -28600>>,  \* -8050144124289646015
       <<16672, 9346, 37321, 18467>>,  \* 5198158688002654496
       <<8334, 33345, 2308, 9234>>,  \* 2599149849916022926
       <<36936, 16672, 58482, -28216>>,  \* -7941846763497811896
       <<18211, 7310, 29241, 2308>>,  \* 649769835865982755
       <<9234, 36936, 16672, -7054>>,  \* -1985452877601561582
       <<37320, 18211, 7310, 29241>>,  \* 8230641191400739272
       <<2276, 9234, 36936, 16672>>,  \* 4692909451237263588
       <<58482, 37320, 18467, 7310>>,  \* 2057661397361812594
       <<29241, 2276, 9234, -28088>>,  \* -7906029485971705287
       <<16672, 58482, 37320, 18211>>,  \* 5126101092889936160
       <<7310, 29241, 51428, 9233>>,  \* 2599079343463931022
       <<36936, 16672, 58482, -28216>>,  \* -7941846763497811896
       <<18211, 7310, 29241, -14108>>,  \* -3970923381816146141
       <<9105, 35397, 10516, -23470>>,  \* -6606172535203224687
       <<37192, 18211, 7310, 29241>>,  \* 8230641191400739144
       <<51428, 9105, 35397, 10516>>,  \* 2960142884643391716
       <<42066, 37192, 18211, 7310>>,  \* 2057660297841779794
       <<29241, 51428, 9105, -30139>>,  \* -8483335214034816455
       <<10516, 42066, 37256, 18211>>,  \* 5126100816936184084
       <<7310, 33337, 35012, 8977>>,  \* 2526951243511307406
       <<35910, 12568, 50274, -28216>>,  \* -7941882016858338234
       <<18211, 7310, 25145, -30524>>,  \* -8591634191684319453
       <<8977, 35910, 12568, -15262>>,  \* -4295817113055649007
       <<37256, 18211, 6286, 25137>>,  \* 7075463488933695880
       <<35012, 8977, 35910, 12568>>,  \* 3537731740163475652
       <<50274, 4488, 17955, 6284>>,  \* 1768865870081737826
       <<25137, 35012, 8977, -29626>>,  \* -8338939101813906895
       <<12568, 50274, 4488, 17955>>,  \* 5053902485947822360
       <<6284, 25137, 35012, 8977>> >>  \* 2526951242973911180

\* the heights that test expects, lines 143-157
OverworldHeights ==
    << 72, 73, 72, 72, 72, 73, 72, 72, 72, 72, 72, 72, 72, 72, 72, 73, 72, 72, 72, 72, 73,
       72, 72, 72, 73, 72, 72, 72, 72, 73, 72, 73, 73, 72, 72, 72, 73, 72, 72, 72, 71, 72,
       72, 72, 72, 72, 72, 73, 72, 72, 72, 72, 72, 73, 71, 71, 72, 71, 72, 72, 72, 72, 72,
       72, 72, 72, 72, 72, 71, 71, 71, 71, 71, 71, 71, 71, 71, 72, 72, 72, 72, 72, 72, 72,
       71, 71, 71, 71, 71, 71, 71, 71, 71, 71, 72, 72, 72, 72, 72, 72, 71, 71, 71, 71, 72,
       71, 71, 71, 71, 71, 72, 72, 72, 73, 72, 72, 71, 71, 71, 71, 71, 71, 71, 71, 71, 71,
       71, 72, 72, 72, 72, 72, 71, 71, 71, 71, 71, 71, 71, 71, 71, 71, 71, 71, 69, 69, 69,
       69, 69, 69, 69, 71, 71, 71, 71, 71, 71, 71, 71, 71, 69, 69, 69, 69, 69, 69, 69, 71,
       71, 71, 71, 71, 71, 71, 71, 71, 69, 69, 69, 69, 69, 69, 70, 71, 71, 71, 71, 71, 72,
       70, 70, 70, 70, 70, 70, 70, 70, 70, 71, 71, 71, 71, 71, 71, 70, 70, 70, 70, 70, 70,
       70, 70, 70, 70, 70, 71, 71, 71, 70, 70, 70, 70, 70, 70, 70, 70, 70, 70, 70, 70, 70,
       70, 70, 70, 70, 70, 70, 70, 70, 70, 70, 70, 70, 70, 70, 70, 70, 70, 70, 70, 70, 70,
       70, 70, 70, 70 >>

(***************************************************************************)
(* Inputs.                                                                 *)
(***************************************************************************)
\* i64 words: -1, two negative words and a positive one with mixed bits
WordPool ==
    { <<65535, 65535, 65535, -1>>,       \* -1
      <<513, 2052, 8208, -32704>>,       \* -9205322385119247871
      <<14610, 5156, 16529, -7054>>,     \* -1985452877601561582
      <<52719, 35243, 17767, 291>> }     \* 81985529216486895 = 0x0123456789ABCDEF

\* all sequences over S of length 0..n
SeqsUpTo(S, n) == UNION {[1 .. k -> S] : k \in 0 .. n}

DataPool == SeqsUpTo(WordPool, MaxWords)

\* the i64 whose bit pattern is the u64 x
FromU64(x) ==
    LET limb(k) == LowValue(Shr(x, 16 * k), 16)
    IN  << limb(0), limb(1), limb(2),
           IF limb(3) >= 32768 THEN limb(3) - 65536 ELSE limb(3) >>

\* The packing the decoder reads: `vals`, each below 2^bits, laid out
\* contiguously in `nwords` words, value k (from 0) in stream bits
\* bits*k .. bits*k + bits - 1, its least significant bit first, stream bit j
\* being bit j % 64 (from the least significant) of word j \div 64.
Pack(vals, bits, nwords) ==
    [w \in 1 .. nwords |->
        FromU64({b \in 0 .. BIT_LENGTH - 1 :
                    LET j == BIT_LENGTH * (w - 1) + b
                        k == j \div bits
                    IN  /\ k < Len(vals)
                        /\ (vals[k + 1] \div Pow2(j % bits)) % 2 = 1})]

\* a heightmap is 16 x 16 heights (line 97) in 36 words (lines 57-94)
HeightmapLen == 256
HeightmapWords == 36

\* the height sequences v_k = (a*k + c) % 512 that are packed
HeightSeq(a, c) == [k \in 1 .. HeightmapLen |-> (a * (k - 1) + c) % Pow2(HeightmapBits)]
HeightSeqs == {HeightSeq(a, c) : a \in 0 .. MaxStride, c \in {0, 128, 511}}

HeightmapPool ==
    {NetherHeightmap, OverworldHeightmap}
        \cup {Pack(v, HeightmapBits, HeightmapWords) : v \in HeightSeqs}

\* usize palette lengths: 0..MaxPalette, and 2^k, 2^k + 1 and 2^(k+1) - 1 for
\* every k (the last of them usize::MAX).  2^k + 1 is drawn where the result
\* does not depend on how libm rounds log2 (see Log2Ceil): k <= 47, where
\* the logarithm is far from k, and k >= 53, where the f64 is 2^k itself.
PalettePool ==
    {NatBits(n) : n \in 0 .. MaxPalette}
        \cup {{k} : k \in 0 .. BIT_LENGTH - 1}
        \cup {{0, k} : k \in (1 .. BIT_LENGTH - 1) \ (48 .. 52)}
        \cup {0 .. k : k \in 0 .. BIT_LENGTH - 1}

SmallPalettePool == {NatBits(n) : n \in 0 .. MaxPalette}

(***************************************************************************)
(* The state machine: one call of one of the four public functions.        *)
(*   op            the function called                                     *)
(*   data          its word array (&[i64])                                 *)
(*   bits_per_item expand_generic's width                                  *)
(*   palette_len   the palette length (usize)                              *)
(*   pc            "call" before the call, "done" after it                 *)
(*   ret           what the call returned: Ok(value) or Panic              *)
(***************************************************************************)
VARIABLES op, data, bits_per_item, palette_len, pc, ret

vars == <<op, data, bits_per_item, palette_len, pc, ret>>

NoRet == [ok |-> FALSE, val |-> "none"]

Init ==
    /\ pc = "call"
    /\ ret = NoRet
    /\ \/ /\ op = "expand_generic"
          /\ data \in DataPool
          /\ bits_per_item \in 0 .. MaxBits
          /\ palette_len = {}
       \/ /\ op = "expand_heightmap"
          /\ data \in HeightmapPool \cup DataPool
          /\ bits_per_item = 0
          /\ palette_len = {}
       \/ /\ op = "expand_blockstates"
          /\ data \in DataPool
          /\ bits_per_item = 0
          /\ palette_len \in SmallPalettePool
       \/ /\ op = "bits_per_block"
          /\ data = <<>>
          /\ bits_per_item = 0
          /\ palette_len \in PalettePool

CallExpandGeneric ==
    /\ pc = "call" /\ op = "expand_generic"
    /\ ret' = expand_generic(data, bits_per_item)
    /\ pc' = "done"
    /\ UNCHANGED <<op, data, bits_per_item, palette_len>>

CallExpandHeightmap ==
    /\ pc = "call" /\ op = "expand_heightmap"
    /\ ret' = expand_heightmap(data)
    /\ pc' = "done"
    /\ UNCHANGED <<op, data, bits_per_item, palette_len>>

CallExpandBlockstates ==
    /\ pc = "call" /\ op = "expand_blockstates"
    /\ ret' \in expand_blockstates(data, palette_len)
    /\ pc' = "done"
    /\ UNCHANGED <<op, data, bits_per_item, palette_len>>

CallBitsPerBlock ==
    /\ pc = "call" /\ op = "bits_per_block"
    /\ \E r \in bits_per_block(palette_len) : ret' = Ok(r)
    /\ pc' = "done"
    /\ UNCHANGED <<op, data, bits_per_item, palette_len>>

Next ==
    \/ CallExpandGeneric
    \/ CallExpandHeightmap
    \/ CallExpandBlockstates
    \/ CallBitsPerBlock

Spec == Init /\ [][Next]_vars

\* the call has returned (or panicked)
Done(f) == pc = "done" /\ op = f

(***************************************************************************)
(* Vocabulary of the properties.                                           *)
(***************************************************************************)
\* a decoding call has returned: expand_generic, or expand_heightmap, which
\* is expand_generic at width 9
Decoded == pc = "done" /\ op \in {"expand_generic", "expand_heightmap"}
Width == IF op = "expand_heightmap" THEN HeightmapBits ELSE bits_per_item
ValidWidth == Width \in 1 .. BIT_LENGTH

\* bit p (0 or 1) of a natural number v < 2^31
NatBit(v, p) == IF p > 30 THEN 0 ELSE (v \div Pow2(p)) % 2

\* the unsigned number with the bit pattern of the i64 w, as four unsigned
\* limbs: w itself, or w + 2^64 = w + 65536 * 2^48 when w is negative
Unsigned(w) == IF w[4] < 0 THEN [w EXCEPT ![4] = @ + 65536] ELSE w

\* bit b (from the least significant) of a number given as unsigned limbs
LimbsBit(u, b) == (u[(b \div 16) + 1] \div Pow2(b % 16)) % 2

\* stream bit j when stream bit j is bit j % 64, counted from the LEAST
\* significant bit, of word j \div 64
LEBit(words, j) ==
    LimbsBit(Unsigned(words[(j \div BIT_LENGTH) + 1]), j % BIT_LENGTH)

\* stream bit j when bit 0 of the stream is the MOST significant bit of
\* word 0
BEBit(words, j) ==
    LimbsBit(Unsigned(words[(j \div BIT_LENGTH) + 1]),
             BIT_LENGTH - 1 - (j % BIT_LENGTH))

\* the number of fields of width bits in the words
Fields(words, bits) == (Len(words) * BIT_LENGTH) \div bits

\* field i (from 0) as a u64: the positions t with stream bit i*bits + t set
FieldBits(words, bits, i) == {t \in 0 .. bits - 1 : LEBit(words, i * bits + t) = 1}

\* field i lies in two words
Straddles(bits, i) ==
    (i * bits) \div BIT_LENGTH # (i * bits + bits - 1) \div BIT_LENGTH

IntMin(a, b) == IF a <= b THEN a ELSE b

(***************************************************************************)
(* C1.  As claimed: output[i] is the integer read from stream bits         *)
(* [i*bits, (i+1)*bits) of the stream whose bit 0 is the most significant  *)
(* bit of word 0, most significant bit first (stream bit begin + t is bit  *)
(* bits - 1 - t of the value).                                             *)
(***************************************************************************)
C1_BigEndianFields ==
    (Decoded /\ ValidWidth) =>
        /\ ret.ok
        /\ Len(ret.val) = Fields(data, Width)
        /\ \A i \in 0 .. Len(ret.val) - 1 : \A t \in 0 .. Width - 1 :
              NatBit(ret.val[i + 1], Width - 1 - t) = BEBit(data, i * Width + t)

(***************************************************************************)
(* C1, amended.  output[i] is the integer read from stream bits            *)
(* [i*bits, (i+1)*bits) of the stream whose bit j is bit j % 64, counted   *)
(* from the least significant bit, of word j \div 64, least significant    *)
(* bit first (stream bit begin + t is bit t of the value), reduced modulo  *)
(* 2^16.                                                                   *)
(***************************************************************************)
C1_LittleEndianFields ==
    (Decoded /\ ValidWidth) =>
        /\ ret.ok
        /\ Len(ret.val) = Fields(data, Width)
        /\ \A i \in 0 .. Len(ret.val) - 1 :
              /\ ret.val[i + 1] < Pow2(IntMin(Width, U16Bits))
              /\ \A t \in 0 .. IntMin(Width, U16Bits) - 1 :
                    NatBit(ret.val[i + 1], t) = LEBit(data, i * Width + t)

\* a field that lies in two words has been decoded to a value that is
\* neither 0 nor all ones
C1_Witness ==
    /\ Decoded /\ ValidWidth /\ ret.ok
    /\ \E i \in 0 .. Len(ret.val) - 1 :
          /\ Straddles(Width, i)
          /\ Width <= U16Bits
          /\ ret.val[i + 1] \notin {0, Pow2(Width) - 1}

(***************************************************************************)
(* C2.  Round trip: 256 values below 512 packed contiguously, least        *)
(* significant bit first, into 36 words are returned by expand_heightmap   *)
(* in order; the uniform fixture (which is that packing of 256 times 128)  *)
(* decodes to 256 times 128, the overworld fixture to the heights its test *)
(* expects.                                                                *)
(***************************************************************************)
PackedHeightmaps ==
    {[vals |-> v, words |-> Pack(v, HeightmapBits, HeightmapWords)] : v \in HeightSeqs}

C2_HeightmapRoundTrip ==
    Done("expand_heightmap") =>
        /\ \A p \in PackedHeightmaps : data = p.words => ret = Ok(p.vals)
        /\ data = NetherHeightmap =>
              /\ ret = Ok([k \in 1 .. HeightmapLen |-> 128])
              /\ data = Pack(HeightSeq(0, 128), HeightmapBits, HeightmapWords)
        /\ data = OverworldHeightmap => ret = Ok(OverworldHeights)

\* a packed heightmap with 256 different-looking values, some above 255,
\* has been decoded
C2_Witness ==
    /\ Done("expand_heightmap")
    /\ data = Pack(HeightSeq(3, 511), HeightmapBits, HeightmapWords)
    /\ ret.ok
    /\ \E k \in 1 .. HeightmapLen : ret.val[k] > 255

(***************************************************************************)
(* C3.  Length law: for a width in 1..64 the output has exactly            *)
(* floor(words * 64 / bits) elements: n fields fit, n + 1 do not.          *)
(***************************************************************************)
C3_LengthLaw ==
    (Decoded /\ ValidWidth) =>
        /\ ret.ok
        /\ Len(ret.val) * Width <= Len(data) * BIT_LENGTH
        /\ (Len(ret.val) + 1) * Width > Len(data) * BIT_LENGTH

\* a non-empty array whose bits the width does not divide: bits are left
\* over and dropped
C3_Witness ==
    /\ Decoded /\ ValidWidth /\ ret.ok
    /\ Len(data) > 0
    /\ (Len(data) * BIT_LENGTH) % Width # 0
    /\ Len(ret.val) > 0

(***************************************************************************)
(* C4.  Range law: for a width in 1..64 every output value v satisfies     *)
(* 0 <= v < 2^bits (2^30 <= 2^bits stands for 2^bits above 30 bits).       *)
(***************************************************************************)
C4_RangeLaw ==
    (Decoded /\ ValidWidth) =>
        /\ ret.ok
        /\ \A k \in 1 .. Len(ret.val) :
              /\ 0 <= ret.val[k]
              /\ ret.val[k] < Pow2(IntMin(Width, 30))

\* a narrow field was cut out of a word of all ones, the largest value
\* came out
C4_Witness ==
    /\ Decoded /\ ValidWidth /\ ret.ok
    /\ Width < U16Bits
    /\ \E k \in 1 .. Len(ret.val) : ret.val[k] = Pow2(Width) - 1

(***************************************************************************)
(* C5.  As claimed: bits_per_block returns 4 for 1 <= palette_len <= 15    *)
(* and, for palette_len >= 16, the least b >= 4 with 2^b >= palette_len.   *)
(***************************************************************************)
\* the least b with 2^b >= x, for a usize x >= 1
LeastBits(x) == IF x = {SetMax(x)} THEN SetMax(x) ELSE SetMax(x) + 1

C5_LeastWidth ==
    (Done("bits_per_block") /\ palette_len # {}) =>
        /\ ret.ok
        /\ ret.val = IF LtNat(palette_len, SmallPalette) THEN MinBits
                     ELSE IntMax(LeastBits(palette_len), MinBits)

(***************************************************************************)
(* C6.  As claimed: for a width outside 1..64 expand_generic signals a     *)
(* failure and returns no output, whatever the word array.                 *)
(***************************************************************************)
C6_InvalidWidthFails ==
    (Done("expand_generic") /\ bits_per_item \notin 1 .. BIT_LENGTH) => ~ret.ok

(***************************************************************************)
(* C7.  As claimed: bits_per_block(0) signals a failure and returns no     *)
(* width.                                                                  *)
(***************************************************************************)
C7_ZeroPaletteFails ==
    (Done("bits_per_block") /\ palette_len = {}) => ~ret.ok

(***************************************************************************)
(* C8.  Signed words are reinterpreted bit for bit: every output bit is    *)
(* the bit of the word's two's-complement pattern.  For a word w >= 0 that *)
(* is the bit of w; for w < 0 it is the bit of w + 2^64, i.e. the          *)
(* complement of the bit of the non-negative number -w - 1.                *)
(***************************************************************************)
\* -w - 1 for a negative i64 w, as unsigned limbs
MinusOneMinus(w) == <<65535 - w[1], 65535 - w[2], 65535 - w[3], (0 - w[4]) - 1>>

TwosComplementBit(w, b) ==
    IF w[4] >= 0 THEN LimbsBit(w, b) ELSE 1 - LimbsBit(MinusOneMinus(w), b)

C8_BitPatternPreserved ==
    (Decoded /\ ValidWidth) =>
        /\ ret.ok
        /\ \A i \in 0 .. Len(ret.val) - 1 :
              \A t \in 0 .. IntMin(Width, U16Bits) - 1 :
                 LET j == i * Width + t
                 IN  NatBit(ret.val[i + 1], t) =
                        TwosComplementBit(data[(j \div BIT_LENGTH) + 1], j % BIT_LENGTH)

\* a field has been read across the top (sign) bit of a negative word into
\* the word after it
C8_Witness ==
    /\ Decoded /\ ValidWidth /\ ret.ok
    /\ \E i \in 0 .. Len(ret.val) - 1 :
          /\ Straddles(Width, i)
          /\ data[((i * Width) \div BIT_LENGTH) + 1][4] < 0
          /\ Width <= U16Bits
          /\ ret.val[i + 1] # Pow2(Width) - 1

(***************************************************************************)
(* C9.  Every field read stays in bounds: for a width in 1..64 the call    *)
(* completes, and every field [begin, end) it reads ends at or before the  *)
(* end of the array and touches at most two adjacent words.                *)
(***************************************************************************)
C9_ReadsInBounds ==
    (Decoded /\ ValidWidth) =>
        /\ ret.ok
        /\ \A i \in 0 .. Len(ret.val) - 1 :
              LET begin == i * Width
                  end   == begin + Width
              IN  /\ end <= Len(data) * BIT_LENGTH
                  /\ ((end - 1) \div BIT_LENGTH) - (begin \div BIT_LENGTH) <= 1

\* fields straddle words and the last field ends exactly at the end of the
\* array
C9_Witness ==
    /\ Decoded /\ ValidWidth /\ ret.ok
    /\ Len(ret.val) > 0
    /\ Len(ret.val) * Width = Len(data) * BIT_LENGTH
    /\ \E i \in 0 .. Len(ret.val) - 1 : Straddles(Width, i)

(***************************************************************************)
(* C10.  Output elements are 16-bit: every element is the field's value    *)
(* modulo 2^16 and is below 2^16, for every width in 1..64; for a width of *)
(* at most 16 it is the field's value.                                     *)
(***************************************************************************)
C10_TruncatedToU16 ==
    (Decoded /\ ValidWidth) =>
        /\ ret.ok
        /\ \A i \in 0 .. Len(ret.val) - 1 :
              LET field == FieldBits(data, Width, i)
              IN  /\ ret.val[i + 1] = LowValue(field, U16Bits)
                  /\ ret.val[i + 1] < Pow2(U16Bits)
                  /\ Width <= U16Bits => ret.val[i + 1] = LowValue(field, Width)

\* a field wider than 16 bits with one bits above bit 15 has been cut down
C10_Witness ==
    /\ Decoded /\ ValidWidth /\ ret.ok
    /\ Width > U16Bits
    /\ \E i \in 0 .. Len(ret.val) - 1 :
          /\ \E t \in FieldBits(data, Width, i) : t >= U16Bits
          /\ ret.val[i + 1] \notin {0, Pow2(U16Bits) - 1}

====
